---------------------------- MODULE Spec2Model ----------------------------
(***************************************************************************)
(* A model of manual-nas-tool.py: the interactive session of main(), the   *)
(* two backup strategies, the prompt helpers, and the progress spinner     *)
(* thread of show_progress/stop_progress.                                  *)
(*                                                                         *)
(* A line of console input is a sequence of one-character strings, so that *)
(* strip(), lower(), split('/') and int() are computed character by        *)
(* character as Python computes them.  Literal pieces the program glues    *)
(* into a path ("rclone:", "_encrypted", a date) are single tokens of the  *)
(* same sequences.                                                         *)
(***************************************************************************)
EXTENDS Integers, Sequences, FiniteSets, TLC

(***************************************************************************)
(* Bounds of the model.                                                    *)
(***************************************************************************)
\* every line over {a, /} of at most this length is typed at the custom path prompt
MaxPathLen == 2
\* most external disks mounted / cloud remotes configured
MaxDisks == 1
MaxRemotes == 1
\* most spinner frames one animation thread prints
MaxFrames == 2
\* most streamed commands a session starts in the spinner specification
MaxCmds == 3

(***************************************************************************)
(* Strings as character sequences.                                         *)
(***************************************************************************)
Whitespace == {" "}

UpperToLower ==
  [c \in {"Q", "U", "I", "T", "Y", "E", "S", "N", "O", "A", "M", "D"} |->
     CASE c = "Q" -> "q" [] c = "U" -> "u" [] c = "I" -> "i" [] c = "T" -> "t"
       [] c = "Y" -> "y" [] c = "E" -> "e" [] c = "S" -> "s" [] c = "N" -> "n"
       [] c = "O" -> "o" [] c = "A" -> "a" [] c = "M" -> "m" [] c = "D" -> "d"]

\* str.lower()
Lower(s) ==
  [i \in 1..Len(s) |-> IF s[i] \in DOMAIN UpperToLower THEN UpperToLower[s[i]] ELSE s[i]]

RECURSIVE LStrip(_, _)
LStrip(s, cs) ==
  IF s # <<>> /\ Head(s) \in cs THEN LStrip(Tail(s), cs) ELSE s

RECURSIVE RStrip(_, _)
RStrip(s, cs) ==
  IF s # <<>> /\ s[Len(s)] \in cs THEN RStrip(SubSeq(s, 1, Len(s) - 1), cs) ELSE s

\* str.strip(): leading and trailing whitespace removed
Strip(s) == RStrip(LStrip(s, Whitespace), Whitespace)

\* str.strip("/")
StripSlash(s) == RStrip(LStrip(s, {"/"}), {"/"})

\* str.split('/'): the segments between slashes, empty ones included
RECURSIVE Split(_)
Split(s) ==
  IF \A i \in 1..Len(s) : s[i] # "/"
  THEN <<s>>
  ELSE LET k == CHOOSE i \in 1..Len(s) : s[i] = "/" /\ \A j \in 1..(i - 1) : s[j] # "/"
       IN  <<SubSeq(s, 1, k - 1)>> \o Split(SubSeq(s, k + 1, Len(s)))

\* os.path.basename: what follows the last slash
Basename(s) == LET parts == Split(s) IN parts[Len(parts)]

Digits == {"0", "1", "2", "3", "4", "5", "6", "7", "8", "9"}

DigitVal(c) ==
  CASE c = "0" -> 0 [] c = "1" -> 1 [] c = "2" -> 2 [] c = "3" -> 3 [] c = "4" -> 4
    [] c = "5" -> 5 [] c = "6" -> 6 [] c = "7" -> 7 [] c = "8" -> 8 [] c = "9" -> 9

RECURSIVE DigitsVal(_)
DigitsVal(s) ==
  IF s = <<>> THEN 0 ELSE 10 * DigitsVal(SubSeq(s, 1, Len(s) - 1)) + DigitVal(s[Len(s)])

\* int(s): an optional sign and at least one digit; anything else is a ValueError
ParseInt(s) ==
  LET t    == Strip(s)
      neg  == t # <<>> /\ Head(t) = "-"
      body == IF t # <<>> /\ Head(t) \in {"-", "+"} THEN Tail(t) ELSE t
  IN  IF body # <<>> /\ \A i \in 1..Len(body) : body[i] \in Digits
      THEN [ok |-> TRUE, val |-> IF neg THEN 0 - DigitsVal(body) ELSE DigitsVal(body)]
      ELSE [ok |-> FALSE, val |-> 0]

\* list[i] of Python: a negative index counts from the end; out of range is an IndexError
PyIndex(list, i) ==
  IF 0 <= i /\ i < Len(list) THEN [ok |-> TRUE, val |-> list[i + 1]]
  ELSE IF i < 0 /\ 0 - Len(list) <= i THEN [ok |-> TRUE, val |-> list[Len(list) + i + 1]]
  ELSE [ok |-> FALSE, val |-> <<>>]

\* list[int(s) - 1] inside try/except (ValueError, IndexError)
SelectByNumber(list, s) ==
  LET n == ParseInt(s)
  IN  IF n.ok THEN PyIndex(list, n.val - 1) ELSE [ok |-> FALSE, val |-> <<>>]


DigitChar(d) == CHOOSE c \in Digits : DigitVal(c) = d

\* str(n) for n >= 0
RECURSIVE Str(_)
Str(n) == IF n < 10 THEN <<DigitChar(n)>> ELSE Str(n \div 10) \o <<DigitChar(n % 10)>>

(***************************************************************************)
(* normalize_name.                                                         *)
(***************************************************************************)
WordChars ==
  {"a", "b", "c", "d", "e", "i", "m", "n", "o", "p", "q", "s", "t", "u", "x", "y",
   "A", "D", "E", "I", "M", "N", "O", "Q", "S", "T", "U", "Y", "_"} \cup Digits

\* NFKD, encode('ascii', 'ignore'): an accented letter keeps its base letter
AsciiFold(s) == [i \in 1..Len(s) |-> IF s[i] = "é" THEN "e" ELSE s[i]]

\* re.sub(r'[^\w\s-]', '', name)
DropPunctuation(s) == SelectSeq(s, LAMBDA c : c \in WordChars \cup Whitespace \cup {"-"})

\* re.sub(r'[\s_-]+', '_', name)
RECURSIVE CollapseSeparators(_)
CollapseSeparators(s) ==
  LET seps == Whitespace \cup {"_", "-"}
  IN  IF s = <<>> THEN <<>>
      ELSE IF Head(s) \in seps THEN <<"_">> \o CollapseSeparators(LStrip(s, seps))
      ELSE <<Head(s)>> \o CollapseSeparators(Tail(s))

normalize_name(name) == CollapseSeparators(Lower(Strip(DropPunctuation(AsciiFold(name)))))

(***************************************************************************)
(* The prompt helpers, as functions of the line typed.                     *)
(***************************************************************************)
QuitWords == {<<"q">>, <<"q", "u", "i", "t">>}

\* get_input: the stripped line, or the default when it is empty; "q"/"quit" calls cleanup
get_input(line, default) ==
  LET result == Strip(line)
  IN  [quit  |-> Lower(result) \in QuitWords,
       value |-> IF result # <<>> THEN result ELSE default]

\* confirm: "yes", "no", or "again" when the loop prompts once more
confirm(line) ==
  LET c == Lower(Strip(line))
  IN  IF c \in {<<"y">>, <<"y", "e", "s">>} THEN "yes"
      ELSE IF c \in {<<"n">>, <<"n", "o">>, <<>>} THEN "no"
      ELSE "again"

\* get_password: the line, or salt_<12 random characters> when it is empty
get_password(line, salt) ==
  LET pwd == Strip(line)
  IN  IF pwd = <<>> THEN salt \o <<"_", "<random12>">> ELSE pwd

\* the depth test of get_custom_destination_path
TooDeep(path) == Len(Split(path)) > 2

\* one turn of get_custom_destination_path's loop
get_custom_destination_path(line, default_path) ==
  LET g    == get_input(line, <<>>)
      path == StripSlash(g.value)
  IN  IF g.quit THEN [kind |-> "quit", path |-> <<>>]
      ELSE IF path = <<>> THEN [kind |-> "return", path |-> default_path]
      ELSE IF TooDeep(path) THEN [kind |-> "again", path |-> <<>>]
      ELSE [kind |-> "return", path |-> path]

(***************************************************************************)
(* Paths.                                                                  *)
(***************************************************************************)
Home == <<"~">>
MediaPath == <<"/run/media/", "$USER">>

\* os.path.join(a, b) for a without a trailing slash
PathJoin(a, b) == IF b # <<>> /\ Head(b) = "/" THEN b ELSE a \o <<"/">> \o b

SecureRepoPath(dest_type, dest_value, custom, nname) ==
  LET repo_name == nname \o <<"_encrypted">>
  IN  IF dest_type = "cloud"
      THEN <<"rclone:">> \o dest_value \o <<":">> \o custom \o <<"/">> \o repo_name
      ELSE PathJoin(PathJoin(PathJoin(MediaPath, dest_value), custom), repo_name)

SimpleProjectPath(dest_type, dest_value, custom, nname) ==
  LET backup_name == nname \o <<"_backup">>
  IN  IF dest_type = "cloud"
      THEN dest_value \o <<":">> \o custom \o <<"/">> \o backup_name
      ELSE PathJoin(PathJoin(PathJoin(MediaPath, dest_value), custom), backup_name)

\* a variant that forgets the suffix
DuplicatedPath_NoSuffix(project_path, date) == project_path

\* the folder used when the user declines to merge into an existing one
DuplicatedPath(project_path, date) == project_path \o <<"_duplicated_", date>>

\* a variant that leaves the list in selection order
SortDestinations_Unsorted(dests) == dests

\* destinations.sort(key=lambda x: x[0] == 'cloud'): a stable sort on a boolean key
SortDestinations(dests) ==
  SelectSeq(dests, LAMBDA d : d[1] # "cloud") \o SelectSeq(dests, LAMBDA d : d[1] = "cloud")


(***************************************************************************)
(* The inputs of the model.                                                *)
(***************************************************************************)
\* every line over {a, /} of at most n characters
RECURSIVE PathLinesUpTo(_)
PathLinesUpTo(n) ==
  IF n = 0 THEN {<<>>}
  ELSE LET shorter == PathLinesUpTo(n - 1)
       IN  shorter \cup {Append(l, c) : l \in {x \in shorter : Len(x) = n - 1}, c \in {"a", "/"}}

QuitLines == {<<"q">>, <<"Q", "u", "I", "T">>, <<" ", "q">>}

\* what the user types at a numbered menu
MenuLines ==
  QuitLines \cup
  {<<>>, <<"x">>, <<"0">>, <<"1">>, <<"2">>, <<"3">>, <<" ", "1", " ">>, <<"-", "1">>}

\* what the user types at a (y/N) prompt
ConfirmLines == {<<>>, <<"y">>, <<"Y", "E", "S">>, <<"n", "o">>, <<"q">>, <<"Q", "u", "I", "T">>}

\* what the user types as a path relative to the home directory
SourceLines == {<<>>, <<"q">>, <<"a">>}

\* what the user types at the password prompt
PasswordLines == {<<>>, <<"q">>}

\* what the user types at the custom destination path prompt
CustomPathLines ==
  PathLinesUpTo(MaxPathLen) \cup QuitLines \cup
  {<<"a", "/", "a">>, <<"a", "/", "/", "a">>, <<"/", "a", "/", "a", "/">>,
   <<"a", "/", "a", "/", "a">>}

\* sorted(subdirectories of the home directory)
HomeFolders == << <<"D", "o", "c", "s">>, <<"M", "y", " ", "D", "!">> >>

DiskNames == [i \in 1..MaxDisks |-> <<"disk", DigitChar(i)>>]
RemoteNames == [i \in 1..MaxRemotes |-> <<"remote", DigitChar(i)>>]
\* the dates datetime.now().strftime('%Y%m%d') may give
Dates == {"20250101", "20250102"}

(***************************************************************************)
(* State.                                                                  *)
(***************************************************************************)
VARIABLES
  pc,                 \* where main() stands
  exitCode,           \* the status sys.exit was called with, -1 while running
  exitReason,         \* which exit was taken
  installed_tools,    \* environment: the tools shutil.which finds
  listremotes,        \* environment: the names rclone listremotes prints
  disks,              \* environment: the directories under the media path
  today,              \* the date the clock gave when it was last read as %Y%m%d
  configured_remotes, choice, src_path, normalized_name,
  primary_type, destinations, password, backup_passwords,
  results, di,        \* the result list and the position of main's for loop
  custom_path, target, repo_exists, backup_type,   \* the running handler's locals
  lastLine, lastPrompt,   \* the last line read by input() and the prompt that read it
  runs,               \* per handler call of the loop: the destination and how it ended
  run,                \* the running handler call: what was decided, which commands ran
  current_operation,  \* the spinner's label
  threads,            \* the animation threads started so far
  console,            \* what was written to the terminal by the streamed commands
  mpc,                \* where the main thread stands in run_cmd_with_progress
  operation,          \* the operation label run_cmd_with_progress was called with
  cmd_no,             \* how many streamed commands the session has started
  cmd_ok              \* success, the local of run_cmd_with_progress

envVars == <<installed_tools, listremotes, disks>>
sessionVars == <<configured_remotes, choice, src_path, normalized_name,
                 primary_type, destinations, password>>
handlerVars == <<custom_path, target, repo_exists, backup_type, today>>
loopVars == <<results, di, runs, run, backup_passwords>>
exitVars == <<exitCode, exitReason>>
inputVars == <<lastLine, lastPrompt>>
progressVars == <<current_operation, threads, console, mpc, operation, cmd_no, cmd_ok>>
mainVars == <<pc, exitVars, envVars, sessionVars, handlerVars, loopVars, inputVars>>
vars == <<mainVars, progressVars>>

RequiredTools == {"restic", "rclone"}

\* the record kept of the running handler call
NoRun ==
  [handler |-> "", target |-> <<>>, merge |-> "none", confirmed |-> FALSE, ops |-> <<>>]

ProgressIdle ==
  /\ current_operation = ""
  /\ threads = <<>>
  /\ console = <<>>
  /\ mpc = "idle"
  /\ operation = ""
  /\ cmd_no = 0
  /\ cmd_ok = FALSE

MainStart ==
  /\ pc = "check_tools"
  /\ exitCode = -1
  /\ exitReason = ""
  /\ configured_remotes = <<>>
  /\ choice = <<>>
  /\ src_path = <<>>
  /\ normalized_name = <<>>
  /\ primary_type = ""
  /\ destinations = <<>>
  /\ password = <<>>
  /\ backup_passwords = {}
  /\ results = <<>>
  /\ di = 1
  /\ custom_path = <<>>
  /\ target = <<>>
  /\ repo_exists = FALSE
  /\ backup_type = ""
  /\ lastLine = <<>>
  /\ lastPrompt = ""
  /\ runs = <<>>
  /\ run = NoRun
  /\ today = ""

Init ==
  /\ installed_tools \in SUBSET RequiredTools
  /\ \E n \in 0..MaxRemotes : listremotes = SubSeq(RemoteNames, 1, n)
  /\ \E n \in 0..MaxDisks : disks = SubSeq(DiskNames, 1, n)
  /\ MainStart
  /\ ProgressIdle

(***************************************************************************)
(* Leaving the process.                                                    *)
(***************************************************************************)
\* sys.exit(code)
SysExit(code, reason) ==
  /\ pc' = "exited"
  /\ exitCode' = code
  /\ exitReason' = reason

\* cleanup(sig): "Operation cancelled by user." and sys.exit(0)
cleanup(reason) == SysExit(0, reason)

Running == pc # "exited"

\* input() returned this line at the prompt main() stands at
Read(line) ==
  /\ lastLine' = line
  /\ lastPrompt' = pc

Goto(label) ==
  /\ pc' = label
  /\ UNCHANGED exitVars


(***************************************************************************)
(* main(): pre-flight checks and the selections.                           *)
(***************************************************************************)
\* check_tools: every required tool is found, or sys.exit(1)
CheckTools ==
  /\ pc = "check_tools"
  /\ IF RequiredTools \subseteq installed_tools
     THEN Goto("check_rclone")
     ELSE SysExit(1, "missing_tool")
  /\ UNCHANGED <<envVars, sessionVars, handlerVars, loopVars, inputVars, progressVars>>

\* the lines rclone listremotes prints: each name followed by a colon
ListremotesOutput == [i \in 1..Len(listremotes) |-> listremotes[i] \o <<":">>]

\* check_rclone_config: the remotes without their colon, or [] when the call fails
CheckRcloneConfig ==
  /\ pc = "check_rclone"
  /\ \E success \in BOOLEAN :
       configured_remotes' =
         IF ~success \/ ListremotesOutput = <<>>
         THEN <<>>
         ELSE [i \in 1..Len(ListremotesOutput) |-> RStrip(ListremotesOutput[i], {":"})]
  /\ Goto("action_select")
  /\ UNCHANGED <<envVars, choice, src_path, normalized_name, primary_type, destinations,
                 password, handlerVars, loopVars, inputVars, progressVars>>

\* choice = get_input("Select an option (1/2)")
ActionSelect(line) ==
  /\ pc = "action_select"
  /\ Read(line)
  /\ LET g == get_input(line, <<>>)
     IN  IF g.quit
         THEN cleanup("quit") /\ UNCHANGED choice
         ELSE /\ choice' = g.value
              /\ IF g.value \in {<<"1">>, <<"2">>}
                 THEN Goto("source_select")
                 ELSE SysExit(1, "invalid_action")
  /\ UNCHANGED <<envVars, configured_remotes, src_path, normalized_name, primary_type,
                 destinations, password, handlerVars, loopVars, progressVars>>

\* folder_choice = get_input("Select a folder"); folders[int(folder_choice) - 1]
SourceSelect(line) ==
  /\ pc = "source_select"
  /\ Read(line)
  /\ LET g   == get_input(line, <<>>)
         sel == SelectByNumber(HomeFolders, g.value)
     IN  IF g.quit
         THEN cleanup("quit") /\ UNCHANGED <<src_path, normalized_name>>
         ELSE IF g.value = <<"0">>
         THEN Goto("source_custom") /\ UNCHANGED <<src_path, normalized_name>>
         ELSE IF ~sel.ok
         THEN SysExit(1, "invalid_source") /\ UNCHANGED <<src_path, normalized_name>>
         ELSE /\ src_path' = PathJoin(Home, sel.val)
              /\ normalized_name' = normalize_name(Basename(PathJoin(Home, sel.val)))
              /\ Goto("source_confirm")
  /\ UNCHANGED <<envVars, configured_remotes, choice, primary_type, destinations, password,
                 handlerVars, loopVars, progressVars>>

\* src_path = os.path.join(home, get_input("Enter path relative to Home")), which must exist
SourceCustom(line) ==
  /\ pc = "source_custom"
  /\ Read(line)
  /\ LET g == get_input(line, <<>>)
     IN  IF g.quit
         THEN cleanup("quit") /\ UNCHANGED <<src_path, normalized_name>>
         ELSE /\ src_path' = PathJoin(Home, g.value)
              /\ \E exists \in BOOLEAN :
                   /\ g.value = <<>> => exists
                   /\ IF exists
                      THEN /\ normalized_name' = normalize_name(Basename(PathJoin(Home, g.value)))
                           /\ Goto("source_confirm")
                      ELSE /\ SysExit(1, "source_missing")
                           /\ UNCHANGED normalized_name
  /\ UNCHANGED <<envVars, configured_remotes, choice, primary_type, destinations, password,
                 handlerVars, loopVars, progressVars>>

\* confirm("Continue with this folder?"), or sys.exit(0)
SourceConfirm(line) ==
  /\ pc = "source_confirm"
  /\ Read(line)
  /\ CASE confirm(line) = "yes" -> Goto("dest_list")
       [] confirm(line) = "no" -> SysExit(0, "declined_source")
       [] OTHER -> UNCHANGED <<pc, exitVars>>
  /\ UNCHANGED <<envVars, sessionVars, handlerVars, loopVars, progressVars>>

\* options: the disks, then the configured remotes, numbered from 1
Options ==
  [i \in 1..Len(disks) |-> <<"disk", disks[i]>>]
    \o [i \in 1..Len(configured_remotes) |-> <<"cloud", configured_remotes[i]>>]

\* if not options: sys.exit(1)
DestList ==
  /\ pc = "dest_list"
  /\ IF Options = <<>> THEN SysExit(1, "no_destinations") ELSE Goto("dest_select")
  /\ UNCHANGED <<envVars, sessionVars, handlerVars, loopVars, inputVars, progressVars>>

\* whether main() offers a secondary destination of the other kind
OffersSecondary(ptype) ==
  \/ ptype = "disk" /\ configured_remotes # <<>>
  \/ ptype = "cloud" /\ disks # <<>>

\* after the selections: the password prompt of the secure action, or the loop
AfterDestinations == IF choice = <<"1">> THEN "password" ELSE "loop"

\* dest_choice = get_input("Select a destination"); destinations = [options[dest_choice]]
DestSelect(line) ==
  /\ pc = "dest_select"
  /\ Read(line)
  /\ LET g      == get_input(line, <<>>)
         chosen == {i \in 1..Len(Options) : Str(i) = g.value}
     IN  IF g.quit
         THEN cleanup("quit") /\ UNCHANGED <<destinations, primary_type>>
         ELSE IF chosen = {}
         THEN SysExit(1, "invalid_destination") /\ UNCHANGED <<destinations, primary_type>>
         ELSE LET d == Options[CHOOSE i \in chosen : TRUE]
              IN  /\ primary_type' = d[1]
                  /\ IF OffersSecondary(d[1])
                     THEN destinations' = <<d>> /\ Goto("secondary_confirm")
                     ELSE destinations' = SortDestinations(<<d>>) /\ Goto(AfterDestinations)
  /\ UNCHANGED <<envVars, configured_remotes, choice, src_path, normalized_name, password,
                 handlerVars, loopVars, progressVars>>

\* confirm("Also back up to a cloud remote?") / confirm("Also back up to an external disk?")
SecondaryConfirm(line) ==
  /\ pc = "secondary_confirm"
  /\ Read(line)
  /\ CASE confirm(line) = "yes" -> Goto("secondary_select") /\ UNCHANGED destinations
       [] confirm(line) = "no" ->
            destinations' = SortDestinations(destinations) /\ Goto(AfterDestinations)
       [] OTHER -> UNCHANGED <<pc, exitVars, destinations>>
  /\ UNCHANGED <<envVars, configured_remotes, choice, src_path, normalized_name,
                 primary_type, password, handlerVars, loopVars, progressVars>>

\* try: destinations.append((kind, list[int(get_input(...)) - 1])) except: skip; then the sort
SecondarySelect(line) ==
  /\ pc = "secondary_select"
  /\ Read(line)
  /\ LET g     == get_input(line, <<>>)
         kind  == IF primary_type = "disk" THEN "cloud" ELSE "disk"
         list  == IF primary_type = "disk" THEN configured_remotes ELSE disks
         sel   == SelectByNumber(list, g.value)
     IN  IF g.quit
         THEN cleanup("quit") /\ UNCHANGED destinations
         ELSE /\ destinations' =
                   SortDestinations(IF sel.ok THEN Append(destinations, <<kind, sel.val>>)
                                    ELSE destinations)
              /\ Goto(AfterDestinations)
  /\ UNCHANGED <<envVars, configured_remotes, choice, src_path, normalized_name,
                 primary_type, password, handlerVars, loopVars, progressVars>>

\* password = get_password("Enter password for secure repository", normalized_name)
Password(line) ==
  /\ pc = "password"
  /\ Read(line)
  /\ password' = get_password(line, normalized_name)
  /\ Goto("loop")
  /\ UNCHANGED <<envVars, configured_remotes, choice, src_path, normalized_name,
                 primary_type, destinations, handlerVars, loopVars, progressVars>>


(***************************************************************************)
(* main(): the per-destination loop, and what each handler call did.       *)
(***************************************************************************)
Secure == choice = <<"1">>

\* the record kept of one handler call of the loop
NewCall(i) == [dest |-> i, returned |-> FALSE, success |-> FALSE]

NewRun == [NoRun EXCEPT !.handler = IF Secure THEN "secure" ELSE "simple"]

\* an external command line: the tool's operation, the path it is given, how it ended
Command(op, path, ok) == [op |-> op, path |-> path, ok |-> ok]

Issued(r, op, path, ok) == [r EXCEPT !.ops = Append(@, Command(op, path, ok))]

Returned(success) ==
  runs' = [runs EXCEPT ![Len(runs)] = [@ EXCEPT !.returned = TRUE, !.success = success]]

\* for dest_type, dest_value in destinations: handler(*args)
ForLoop ==
  /\ pc = "loop"
  /\ IF di <= Len(destinations)
     THEN /\ runs' = Append(runs, NewCall(di))
          /\ run' = NewRun
          /\ custom_path' = <<>>
          /\ target' = <<>>
          /\ repo_exists' = FALSE
          /\ backup_type' = ""
          /\ today' = ""
          /\ Goto("custom_path")
     ELSE /\ Goto("after_loop")
          /\ UNCHANGED <<runs, run, handlerVars>>
  /\ UNCHANGED <<envVars, sessionVars, results, di, backup_passwords, inputVars, progressVars>>

\* a variant that goes on to the next destination after a failure
HandlerReturn_NoBreak(success, data) ==
  /\ results' = IF success THEN Append(results, data) ELSE results
  /\ di' = di + 1
  /\ Goto("loop")
  /\ Returned(success)

\* the handler returns (success, result_data): append and go on, or break
HandlerReturn(success, data) ==
  /\ results' = IF success THEN Append(results, data) ELSE results
  /\ di' = IF success THEN di + 1 ELSE di
  /\ Goto(IF success THEN "loop" ELSE "after_loop")
  /\ Returned(success)

ResultData == [destination |-> target]

\* the handler's locals are gone once it has returned
HandlerGone ==
  /\ custom_path' = <<>>
  /\ target' = <<>>
  /\ repo_exists' = FALSE
  /\ backup_type' = ""
  /\ today' = ""
  /\ run' = NoRun

\* a variant that reports an empty result set as success
EndOfLoop_ExitZero ==
  /\ pc = "after_loop"
  /\ IF results = <<>> THEN SysExit(0, "no_results") ELSE Goto("summary")
  /\ HandlerGone
  /\ UNCHANGED <<envVars, sessionVars, results, di, runs, backup_passwords, inputVars,
                 progressVars>>

\* if not results: sys.exit(1)
EndOfLoop ==
  /\ pc = "after_loop"
  /\ IF results = <<>> THEN SysExit(1, "no_results") ELSE Goto("summary")
  /\ HandlerGone
  /\ UNCHANGED <<envVars, sessionVars, results, di, runs, backup_passwords, inputVars,
                 progressVars>>

\* the summary and the password box are printed
Summary ==
  /\ pc = "summary"
  /\ Goto("install_confirm")
  /\ UNCHANGED <<envVars, sessionVars, handlerVars, loopVars, inputVars, progressVars>>

\* handle_installation: one confirm, install or not, then main() returns
InstallConfirm(line) ==
  /\ pc = "install_confirm"
  /\ Read(line)
  /\ IF confirm(line) = "again"
     THEN UNCHANGED <<pc, exitVars>>
     ELSE SysExit(0, "done")
  /\ UNCHANGED <<envVars, sessionVars, handlerVars, loopVars, progressVars>>

\* SIGINT or SIGTERM: cleanup(sig, frame)
Interrupt ==
  /\ Running
  /\ cleanup("interrupt")
  /\ UNCHANGED <<envVars, sessionVars, handlerVars, loopVars, inputVars, progressVars>>

(***************************************************************************)
(* The two handlers.                                                       *)
(***************************************************************************)
DefaultSubPath == IF Secure THEN <<"manual_nas_encrypted">> ELSE <<"manual_nas_backup">>

\* custom_path = get_custom_destination_path(default); then the target path is built
CustomPath(line) ==
  /\ pc = "custom_path"
  /\ Read(line)
  /\ LET r    == get_custom_destination_path(line, DefaultSubPath)
         d    == destinations[di]
         path == IF Secure THEN SecureRepoPath(d[1], d[2], r.path, normalized_name)
                 ELSE SimpleProjectPath(d[1], d[2], r.path, normalized_name)
     IN  CASE r.kind = "quit" ->
                /\ cleanup("quit")
                /\ UNCHANGED <<custom_path, target, backup_passwords, run>>
           [] r.kind = "again" ->
                UNCHANGED <<pc, exitVars, custom_path, target, backup_passwords, run>>
           [] OTHER ->
                /\ custom_path' = r.path
                /\ target' = path
                /\ backup_passwords' =
                     IF Secure
                     THEN {e \in backup_passwords : e[1] # path} \cup {<<path, password>>}
                     ELSE backup_passwords
                /\ run' = [run EXCEPT !.target = path]
                /\ Goto(IF Secure THEN "secure_probe" ELSE "simple_probe")
  /\ UNCHANGED <<envVars, sessionVars, repo_exists, backup_type, today, results, di, runs,
                 progressVars>>

\* repo_exists, _ = run_cmd("restic --repo ... snapshots --last 1")
SecureProbe ==
  /\ pc = "secure_probe"
  /\ \E ok \in BOOLEAN :
       /\ repo_exists' = ok
       /\ backup_type' = IF ok THEN "Incremental" ELSE "Initial"
       /\ run' = Issued(run, "snapshots", target, ok)
  /\ Goto("secure_confirm")
  /\ UNCHANGED <<envVars, sessionVars, custom_path, target, today, results, di, runs,
                 backup_passwords, inputVars, progressVars>>

\* if not confirm("Proceed with {backup_type} backup ..."): return False, None
SecureConfirm(line) ==
  /\ pc = "secure_confirm"
  /\ Read(line)
  /\ CASE confirm(line) = "yes" ->
            /\ Goto(IF repo_exists THEN "secure_backup" ELSE "secure_init")
            /\ run' = [run EXCEPT !.confirmed = TRUE]
            /\ UNCHANGED <<results, di, runs>>
       [] confirm(line) = "no" ->
            /\ HandlerReturn(FALSE, ResultData)
            /\ UNCHANGED run
       [] OTHER -> UNCHANGED <<pc, exitVars, results, di, runs, run>>
  /\ UNCHANGED <<envVars, sessionVars, handlerVars, backup_passwords, progressVars>>

\* a variant that backs up even though init failed
SecureInit_IgnoresFailure ==
  /\ pc = "secure_init"
  /\ \E ok \in BOOLEAN :
       /\ run' = Issued(run, "init", target, ok)
       /\ Goto("secure_backup")
       /\ UNCHANGED <<results, di, runs>>
  /\ UNCHANGED <<envVars, sessionVars, handlerVars, backup_passwords, inputVars, progressVars>>

\* run_cmd_with_progress("restic --repo ... init"); if not success: return False, None
SecureInit ==
  /\ pc = "secure_init"
  /\ \E ok \in BOOLEAN :
       /\ run' = Issued(run, "init", target, ok)
       /\ IF ok
          THEN Goto("secure_backup") /\ UNCHANGED <<results, di, runs>>
          ELSE HandlerReturn(FALSE, ResultData)
  /\ UNCHANGED <<envVars, sessionVars, handlerVars, backup_passwords, inputVars, progressVars>>

\* run_cmd_with_progress("restic backup ... --repo ..."); return success, {...}
SecureBackup ==
  /\ pc = "secure_backup"
  /\ \E ok \in BOOLEAN :
       /\ run' = Issued(run, "backup", target, ok)
       /\ HandlerReturn(ok, ResultData)
  /\ UNCHANGED <<envVars, sessionVars, handlerVars, backup_passwords, inputVars, progressVars>>

\* if run_cmd("rclone lsd project_path")[0]: the folder exists already
SimpleProbe ==
  /\ pc = "simple_probe"
  /\ \E ok \in BOOLEAN :
       /\ Goto(IF ok THEN "simple_merge" ELSE "simple_confirm")
       /\ run' = Issued(run, "lsd", target, ok)
  /\ UNCHANGED <<envVars, sessionVars, handlerVars, results, di, runs, backup_passwords,
                 inputVars, progressVars>>

\* if not confirm("Do you want to merge/update files into it?"): use the duplicated folder
SimpleMerge(line) ==
  /\ pc = "simple_merge"
  /\ Read(line)
  /\ CASE confirm(line) = "yes" ->
            /\ Goto("simple_confirm")
            /\ run' = [run EXCEPT !.merge = "accepted"]
            /\ UNCHANGED <<target, today>>
       [] confirm(line) = "no" ->
            /\ Goto("simple_confirm")
            /\ today' \in Dates
            /\ target' = DuplicatedPath(target, today')
            /\ run' = [run EXCEPT !.merge = "declined"]
       [] OTHER -> UNCHANGED <<pc, exitVars, target, today, run>>
  /\ UNCHANGED <<envVars, sessionVars, custom_path, repo_exists, backup_type, results, di,
                 runs, backup_passwords, progressVars>>

\* if not confirm("Proceed with simple copy ..."): return False, None
SimpleConfirm(line) ==
  /\ pc = "simple_confirm"
  /\ Read(line)
  /\ CASE confirm(line) = "yes" ->
            /\ Goto("simple_copy")
            /\ run' = [run EXCEPT !.confirmed = TRUE]
            /\ UNCHANGED <<results, di, runs>>
       [] confirm(line) = "no" ->
            /\ HandlerReturn(FALSE, ResultData)
            /\ UNCHANGED run
       [] OTHER -> UNCHANGED <<pc, exitVars, results, di, runs, run>>
  /\ UNCHANGED <<envVars, sessionVars, handlerVars, backup_passwords, progressVars>>

\* run_cmd_with_progress("rclone copy src project_path ..."); return success, {...}
SimpleCopy ==
  /\ pc = "simple_copy"
  /\ \E ok \in BOOLEAN :
       /\ run' = Issued(run, "copy", target, ok)
       /\ HandlerReturn(ok, ResultData)
  /\ UNCHANGED <<envVars, sessionVars, handlerVars, backup_passwords, inputVars, progressVars>>

(***************************************************************************)
(* The session.  A streamed command is one step of the session here; the   *)
(* spinner it runs under is the subject of SpecProgress below.             *)
(***************************************************************************)
Next ==
  \/ CheckTools
  \/ CheckRcloneConfig
  \/ \E line \in MenuLines : ActionSelect(line)
  \/ \E line \in MenuLines : SourceSelect(line)
  \/ \E line \in SourceLines : SourceCustom(line)
  \/ \E line \in ConfirmLines : SourceConfirm(line)
  \/ DestList
  \/ \E line \in MenuLines : DestSelect(line)
  \/ \E line \in ConfirmLines : SecondaryConfirm(line)
  \/ \E line \in MenuLines : SecondarySelect(line)
  \/ \E line \in PasswordLines : Password(line)
  \/ ForLoop
  \/ \E line \in CustomPathLines : CustomPath(line)
  \/ SecureProbe
  \/ \E line \in ConfirmLines : SecureConfirm(line)
  \/ SecureInit
  \/ SecureBackup
  \/ SimpleProbe
  \/ \E line \in ConfirmLines : SimpleMerge(line)
  \/ \E line \in ConfirmLines : SimpleConfirm(line)
  \/ SimpleCopy
  \/ EndOfLoop
  \/ Summary
  \/ \E line \in ConfirmLines : InstallConfirm(line)
  \/ Interrupt

Spec == Init /\ [][Next]_vars


(***************************************************************************)
(* Properties of the session.                                              *)
(***************************************************************************)
IsPrefix(a, b) == Len(a) <= Len(b) /\ SubSeq(b, 1, Len(a)) = a

LastCall == runs[Len(runs)]

\* the running handler call has returned to the loop
CallReturned == runs # <<>> /\ LastCall.returned

OpsOf(r) == [i \in 1..Len(r.ops) |-> r.ops[i].op]

\* what the loop has done so far, read off its calls and its result list
HaltsAtFirstFailure ==
  /\ Len(runs) <= Len(destinations)
  /\ \A k \in 1..Len(runs) : runs[k].dest = k
  /\ \A k \in 1..(Len(runs) - 1) : runs[k].returned /\ runs[k].success
  /\ Len(results) = Cardinality({k \in 1..Len(runs) : runs[k].success})
  /\ (Len(destinations) = 2 /\ runs # <<>> /\ runs[1].returned /\ ~runs[1].success)
       => (results = <<>> /\ Len(runs) = 1)

\* C1: the loop calls the handlers in list order, one at a time; after a handler
\* returns failure no later handler is called, and the results appended so far are
\* kept as they are (with two destinations and the first failing, the result list is
\* empty and the second handler is never called).
C1_SequentialHalt ==
  /\ []HaltsAtFirstFailure
  /\ [][IsPrefix(results, results')]_vars

\* two destinations, the first handler returned failure, and the session ended there
C1_Witness ==
  /\ Len(destinations) = 2
  /\ Len(runs) = 1
  /\ runs[1].returned /\ ~runs[1].success
  /\ exitReason = "no_results"

\* C2: in a confirmed run of handle_secure_backup, a successful probe makes the run
\* "Incremental", with no init and then the backup; a failed probe makes it "Initial",
\* with init before the backup and the backup only after init succeeded (a failed
\* init returns failure with no backup).
C2_SecureClassification ==
  run.handler = "secure" =>
    LET ops == OpsOf(run)
    IN  /\ ops # <<>> =>
              /\ ops[1] = "snapshots"
              /\ repo_exists = run.ops[1].ok
              /\ backup_type = IF run.ops[1].ok THEN "Incremental" ELSE "Initial"
        /\ \A i \in 1..Len(ops) : run.ops[i].path = run.target
        /\ ~run.confirmed => Len(ops) <= 1
        /\ (run.confirmed /\ run.ops[1].ok) =>
              /\ IsPrefix(ops, <<"snapshots", "backup">>)
              /\ CallReturned => ops = <<"snapshots", "backup">>
        /\ (run.confirmed /\ ~run.ops[1].ok) =>
              /\ IsPrefix(ops, <<"snapshots", "init", "backup">>)
              /\ Len(ops) = 3 => run.ops[2].ok
              /\ CallReturned =>
                   \/ ops = <<"snapshots", "init", "backup">>
                   \/ ops = <<"snapshots", "init">> /\ ~run.ops[2].ok /\ ~LastCall.success

\* an Initial run that was confirmed, initialised the repository and backed up
C2_Witness ==
  /\ run.handler = "secure"
  /\ run.confirmed
  /\ CallReturned
  /\ backup_type = "Initial"
  /\ OpsOf(run) = <<"snapshots", "init", "backup">>

\* no cloud entry stands before a disk entry
DiskBeforeCloud(dests) ==
  \A i, j \in 1..Len(dests) : (i < j /\ dests[i][1] = "cloud") => dests[j][1] # "disk"

\* C3: whichever kind was selected first, the list the loop iterates has every disk
\* entry before every cloud entry.
C3_DiskBeforeCloud ==
  pc \in {"password", "loop", "custom_path", "secure_probe", "secure_confirm", "secure_init",
          "secure_backup", "simple_probe", "simple_merge", "simple_confirm", "simple_copy",
          "after_loop", "summary", "install_confirm"}
    => DiskBeforeCloud(destinations)

\* a cloud remote was the primary choice, a disk was added, and the loop starts with the disk
C3_Witness ==
  /\ pc = "custom_path"
  /\ di = 1
  /\ primary_type = "cloud"
  /\ Len(destinations) = 2
  /\ destinations[1][1] = "disk"

FailureReasons ==
  {"missing_tool", "invalid_action", "invalid_source", "source_missing", "no_destinations",
   "invalid_destination", "no_results"}

QuitTyped == lastPrompt # "" /\ Lower(Strip(lastLine)) \in QuitWords

\* C5: at every prompt (the selections, the custom path, every confirmation, the
\* password), "q" or "quit" in any letter case ends the process at once with exit
\* code 0, and nothing further happens.
C5_QuitEverywhere == QuitTyped => (pc = "exited" /\ exitCode = 0)

\* the quit word typed at the source confirmation, and the prompt asked again
C5_QuitIgnored == QuitTyped /\ lastPrompt = "source_confirm" /\ pc = "source_confirm"

\* the list the secondary selection is made from
SecondaryList == IF primary_type = "disk" THEN configured_remotes ELSE disks

\* a line naming an entry of a list of n entries by its number, counted from 1
ValidChoice(line, n) ==
  LET v == ParseInt(Strip(line)) IN v.ok /\ 1 <= v.val /\ v.val <= n

\* C6: a secondary selection that is no valid 1-based index of the list shown (not a
\* number, 0, negative, or past the end) adds nothing: the run goes on with the
\* primary destination alone; the list holds 1 or 2 entries, 2 of different kinds.
C6_InvalidSecondarySkipped ==
  /\ (lastPrompt = "secondary_select" /\ ~QuitTyped
        /\ ~ValidChoice(lastLine, Len(SecondaryList)))
       => Len(destinations) = 1
  /\ Len(destinations) <= 2
  /\ Len(destinations) = 2 => destinations[1][1] # destinations[2][1]

\* the number of non-empty segments between slashes
NonEmptySegments(path) == Len(SelectSeq(Split(path), LAMBDA seg : seg # <<>>))

\* the last line typed at the custom path prompt, trimmed of blanks and outer slashes
TypedPath == StripSlash(Strip(lastLine))

\* C8: at the custom path prompt a path of at most 2 non-empty segments is accepted
\* and returned as typed, a path of 3 or more segments is rejected and asked again,
\* and an empty line gives the default sub-path.
C8_CustomPathValidation ==
  (lastPrompt = "custom_path" /\ ~QuitTyped) =>
    /\ NonEmptySegments(TypedPath) \in {1, 2} => custom_path = TypedPath
    /\ NonEmptySegments(TypedPath) >= 3 => custom_path = <<>>
    /\ TypedPath = <<>> => custom_path = DefaultSubPath


(***************************************************************************)
(* The spinner.  The main thread runs the streamed commands of a secure    *)
(* session one after the other: per destination init (when the repository  *)
(* is new) and then backup, the next call following as soon as the last    *)
(* returned success.  Every show_progress starts a thread running          *)
(* animate(); the threads and the main thread interleave step by step.     *)
(* The rest of the session's state plays no part and is left as it starts. *)
(***************************************************************************)
\* the operations a handler may stream next: backup right after init, else either
NextOperations == IF operation = "init" /\ cmd_ok THEN {"backup"} ELSE {"init", "backup"}

\* run_cmd_with_progress is called: print("Starting {operation}...")
RunCmdStart ==
  /\ mpc = "idle"
  /\ cmd_no < MaxCmds
  /\ \E op \in NextOperations : operation' = op
  /\ cmd_no' = cmd_no + 1
  /\ cmd_ok' = FALSE
  /\ console' = Append(console, [kind |-> "starting", label |-> operation'])
  /\ mpc' = "show_progress"
  /\ UNCHANGED <<current_operation, threads>>
  /\ UNCHANGED mainVars

\* show_progress(operation): set the label, start a daemon thread running animate()
show_progress ==
  /\ mpc = "show_progress"
  /\ current_operation' = operation
  /\ threads' = Append(threads, [pc |-> "while", i |-> 0])
  /\ mpc' = "execute"
  /\ UNCHANGED <<console, operation, cmd_no, cmd_ok>>
  /\ UNCHANGED mainVars

\* the log line, Popen, the output lines read to the end, process.wait()
Execute ==
  /\ mpc = "execute"
  /\ cmd_ok' \in BOOLEAN
  /\ mpc' = "stop_progress"
  /\ UNCHANGED <<current_operation, threads, console, operation, cmd_no>>
  /\ UNCHANGED mainVars

\* stop_progress(): current_operation = ""
stop_progress ==
  /\ mpc = "stop_progress"
  /\ current_operation' = ""
  /\ mpc' = "stop_print"
  /\ UNCHANGED <<threads, console, operation, cmd_no, cmd_ok>>
  /\ UNCHANGED mainVars

\* stop_progress(): print()
StopPrint ==
  /\ mpc = "stop_print"
  /\ console' = Append(console, [kind |-> "newline", label |-> ""])
  /\ mpc' = "report"
  /\ UNCHANGED <<current_operation, threads, operation, cmd_no, cmd_ok>>
  /\ UNCHANGED mainVars

\* the log entry, then the status message and on failure the last output lines; return
Report ==
  /\ mpc = "report"
  /\ console' = Append(console, [kind |-> IF cmd_ok THEN "completed" ELSE "failed",
                                 label |-> operation])
  /\ mpc' = IF cmd_ok THEN "idle" ELSE "halted"
  /\ UNCHANGED <<current_operation, threads, operation, cmd_no, cmd_ok>>
  /\ UNCHANGED mainVars

\* animate(): while current_operation:
AnimateWhile(t) ==
  /\ threads[t].pc = "while"
  /\ threads' = [threads EXCEPT ![t].pc = IF current_operation # "" THEN "print" ELSE "done"]
  /\ UNCHANGED <<current_operation, console, mpc, operation, cmd_no, cmd_ok>>
  /\ UNCHANGED mainVars

\* animate(): print(f"\r{PROG} {chars[i % len(chars)]} {current_operation} - ...")
AnimatePrint(t) ==
  /\ threads[t].pc = "print"
  /\ console' = Append(console, [kind |-> "frame", label |-> current_operation])
  /\ threads' = [threads EXCEPT ![t].pc = "sleep"]
  /\ UNCHANGED <<current_operation, mpc, operation, cmd_no, cmd_ok>>
  /\ UNCHANGED mainVars

\* animate(): time.sleep(0.1); i += 1
AnimateSleep(t) ==
  /\ threads[t].pc = "sleep"
  /\ threads[t].i + 1 < MaxFrames
  /\ threads' = [threads EXCEPT ![t].pc = "while", ![t].i = @ + 1]
  /\ UNCHANGED <<current_operation, console, mpc, operation, cmd_no, cmd_ok>>
  /\ UNCHANGED mainVars

NextProgress ==
  \/ RunCmdStart
  \/ show_progress
  \/ Execute
  \/ stop_progress
  \/ StopPrint
  \/ Report
  \/ \E t \in 1..Len(threads) : AnimateWhile(t)
  \/ \E t \in 1..Len(threads) : AnimatePrint(t)
  \/ \E t \in 1..Len(threads) : AnimateSleep(t)

InitProgress ==
  /\ installed_tools = RequiredTools
  /\ listremotes = <<>>
  /\ disks = <<>>
  /\ MainStart
  /\ ProgressIdle

SpecProgress == InitProgress /\ [][NextProgress]_vars

\* the animation threads inside the body of their loop: past the test of the label,
\* writing a frame or sleeping until the next one
Animating == {t \in 1..Len(threads) : threads[t].pc \in {"print", "sleep"}}

\* C9: over any sequence of streamed commands, at most one animation thread is
\* running its loop at a time: each has left its loop before the next is started.
C9_OneAnimationThread == Cardinality(Animating) <= 1

\* two threads, each past its loop test and about to write a frame of the same label
C9_TwoThreadsAnimate ==
  \E t1, t2 \in 1..Len(threads) :
    t1 # t2 /\ threads[t1].pc = "print" /\ threads[t2].pc = "print" /\ current_operation # ""

\* C10: once stop_progress has cleared the label no spinner frame is written, so the
\* status and error lines that follow stop_progress are never mixed with a frame.
C10_NoFrameAfterStop ==
  \A j \in 1..Len(console) :
    /\ console[j].kind = "frame" => console[j].label # ""
    /\ console[j].kind \in {"completed", "failed"} => (j > 1 /\ console[j - 1].kind = "newline")

\* a frame written between the newline of stop_progress and the status message
C10_FrameBeforeStatus ==
  \E j \in 2..Len(console) :
    /\ console[j].kind = "frame"
    /\ console[j - 1].kind = "newline"
    /\ mpc = "report"

=============================================================================
